---- MODULE Spec2Model ----
(***************************************************************************)
(* A model of seisplot's Seismic object (src/seismic.py): construction     *)
(* and geometry resolution (__init__, from_obspy), line extraction         *)
(* (get_line) and bandwidth estimation (spectrum, plot_spectrum).          *)
(*                                                                         *)
(* Data arrays are modelled by their shape and by the order of the traces  *)
(* they hold (trace t of the supplied array is the number t); samples are  *)
(* not modelled individually.  Times are integers in milliseconds.         *)
(* Amplitude spectra are sequences over 0 and powers of ten, for which     *)
(* 20*log10 is exact; interpolated bins and frequencies are rationals      *)
(* <<numerator, denominator>>.                                             *)
(***************************************************************************)
EXTENDS Integers, Sequences, FiniteSets, TLC

VARIABLES self, args, ret, out

vars == <<self, args, ret, out>>

(* ------------------------------ bounds -------------------------------- *)

\* Largest number of traces handed to the constructor.
MaxTraces == 10
\* Largest number of samples per trace.
MaxSamples == 2
\* Largest inline / crossline count a caller passes in params.
MaxLines == 4
\* Largest inline and crossline count of a generated survey grid.
MaxGrid == 3
\* Largest length of an unstructured header sequence.
MaxHdrLen == 3
\* Largest denominator of a fractional line index.
MaxDen == 4
\* Largest line count and trace count of a model lines are taken from.
MaxLineTraces == 6
\* Largest number of frequency bins of an amplitude spectrum.
MaxBins == 3
\* Amplitudes are 0 and the powers of ten up to 10^MaxDecades.
MaxDecades == 2
\* Largest number of traces plot_spectrum visits.
MaxVisited == 2

(* ------------------------------ constants ----------------------------- *)

\* sig = db - np.amax(db) + 20: the threshold lies 20 dB below the maximum
ThresholdDb == 20

(* ------------------------------ helpers ------------------------------- *)

Last(s) == s[Len(s)]

RECURSIVE Prod(_)
Prod(s) == IF s = <<>> THEN 1 ELSE Head(s) * Prod(Tail(s))

SetMax(S) == CHOOSE m \in S : \A e \in S : e <= m

SetMin(S) == CHOOSE m \in S : \A e \in S : m <= e

Range(s) == {s[i] : i \in 1..Len(s)}

(* ------------------------------ params -------------------------------- *)

\* params = {} (also what params=None becomes)
NoParams == [k \in {} |-> 0]

\* params.get(k, d)
Get(p, k, d) == IF k \in DOMAIN p THEN p[k] ELSE d

\* params.get(k) or d : an absent key gives None, and None and 0 are falsy
GetOr(p, k, d) == IF k \in DOMAIN p /\ p[k] # 0 THEN p[k] ELSE d

\* params[k] = v
Put(p, k, v) == [j \in DOMAIN p \cup {k} |-> IF j = k THEN v ELSE p[j]]

(* ------------------------------ the object ---------------------------- *)

\* No Seismic object exists (before construction, or construction raised).
NoObject == [alive |-> FALSE]

\* np.asarray(data): an (ntraces, nsamples) array holding traces 1..ntraces
AsArray(nt, ns) == [shape |-> <<nt, ns>>, traces |-> [t \in 1..nt |-> t]]

\* data.reshape(newshape) succeeds exactly when the sizes agree
CanReshape(data, newshape) == Prod(data.shape) = Prod(newshape)

Reshape(data, newshape) == [data EXCEPT !.shape = newshape]

\* int(a / b) for a, b >= 0, b > 0
IntDiv(a, b) == a \div b

\* np.linspace(1, n, n)
Linspace1(n) == [i \in 1..n |-> i]

\* np.arange(0, n * dt, dt) for integers n >= 0, dt > 0
Arange(n, dt) == [i \in 1..n |-> (i - 1) * dt]

\* self.nsamples after the check of lines 33-42
FixNsamples(data, params) ==
    LET given == Get(params, "nsamples", Last(data.shape))
    IN  IF given # 0 /\ given # Last(data.shape) THEN Last(data.shape) ELSE given

\* the message of lines 41-42, if printed
NsamplesMsg(data, params) ==
    LET given == Get(params, "nsamples", Last(data.shape))
    IN  IF given # 0 /\ given # Last(data.shape)
        THEN << <<"nsamples changed", Last(data.shape)>> >>
        ELSE <<>>

\* self.ninlines after lines 46-48
ResolveNinlines(data, params) ==
    LET ninlines == Get(params, "ninlines", 1)
        nxlines  == Get(params, "nxlines", 0)
    IN  IF ninlines = 1 /\ nxlines > 0
        THEN IntDiv(data.shape[1], nxlines)
        ELSE ninlines

\* self.nxlines after lines 50-52
ResolveNxlines(data, params) ==
    LET ninlines == ResolveNinlines(data, params)
    IN  IF ninlines > 1
        THEN IntDiv(data.shape[1], ninlines)
        ELSE Get(params, "nxlines", 0)

\* the message of lines 53-55, if printed
NxlinesMsg(data, params) ==
    LET x       == Get(params, "nxlines", 0)
        nxlines == ResolveNxlines(data, params)
    IN  IF ResolveNinlines(data, params) > 1 /\ nxlines # 0 /\ x # nxlines
        THEN << <<"nxlines changed", nxlines>> >>
        ELSE <<>>

\* Seismic.__init__(data, params=params): the object built, the exception
\* raised if any, and what was printed on the way.
Seismic(data, params) ==
    LET nsamples == FixNsamples(data, params)
        ninlines == ResolveNinlines(data, params)
        nxlines  == ResolveNxlines(data, params)
        tstart   == Get(params, "tstart", 0)
        dt       == Get(params, "dt", 0)
        newshape == <<ninlines, nxlines, Last(data.shape)>>
        msgs     == NsamplesMsg(data, params) \o NxlinesMsg(data, params)
        stored   == IF ninlines > 1 THEN Reshape(data, newshape) ELSE data
    IN  IF ninlines > 1 /\ ~CanReshape(data, newshape)
        THEN [self |-> NoObject, ret |-> [status |-> "ValueError"], out |-> msgs]
        ELSE IF dt = 0
        THEN [self |-> NoObject, ret |-> [status |-> "ZeroDivisionError"],
              out |-> msgs]
        ELSE [self |-> [alive    |-> TRUE,
                        data     |-> stored,
                        ntraces  |-> Get(params, "ntraces", data.shape[1]),
                        inlines  |-> Get(params, "inlines", Linspace1(ninlines)),
                        xlines   |-> Get(params, "xlines", Linspace1(nxlines)),
                        ninlines |-> ninlines,
                        nxlines  |-> nxlines,
                        nsamples |-> nsamples,
                        tstart   |-> tstart,
                        dt       |-> dt,
                        tbasis   |-> Arange(nsamples, dt)],
              ret  |-> [status |-> "ok"],
              out  |-> msgs]

(* --------------------------- constructor inputs ----------------------- *)

Opt(k, V) == {NoParams} \cup {k :> v : v \in V}

\* params a caller hands to the constructor
CtorParams ==
    {a @@ b @@ c @@ d @@ e :
        a \in Opt("ninlines", 0..MaxLines),
        b \in Opt("nxlines", 0..MaxLines),
        c \in Opt("nsamples", 0..MaxSamples),
        d \in Opt("tstart", {3}),
        e \in Opt("dt", {2, 4})}

(* --------------------- header patterns (patterns, utils) -------------- *)

\* i is a reset: the value decreases compared to the previous element
Resets(seq) == {i \in 2..Len(seq) : seq[i] < seq[i-1]}

\* i is a change: the value differs from the previous element
Changes(seq) == {i \in 2..Len(seq) : seq[i] # seq[i-1]}

\* the distances between consecutive members of a set of indices
Strides(I) ==
    {q[2] - q[1] : q \in {p \in I \X I : /\ p[1] < p[2]
                                          /\ \A e \in I : e <= p[1] \/ e >= p[2]}}

\* patterns.sawtooth: resets exist and recur at one stride
sawtooth(seq) == Len(seq) >= 2 /\ Resets(seq) # {} /\
                 Cardinality(Strides(Resets(seq))) <= 1

\* patterns.monotonic: weakly increasing or weakly decreasing, not constant
monotonic(seq) == /\ Len(seq) >= 2
                  /\ Changes(seq) # {}
                  /\ \/ \A i \in 2..Len(seq) : seq[i-1] <= seq[i]
                     \/ \A i \in 2..Len(seq) : seq[i-1] >= seq[i]

\* patterns.stairstep: the value changes after runs of one length
stairstep(seq) == Len(seq) >= 2 /\ Changes(seq) # {} /\
                  Cardinality(Strides(Changes(seq))) <= 1

\* utils.get_pattern_from_stream: the header values if they show the
\* pattern, nothing otherwise
GetPattern(hdr, kind) ==
    CASE kind = "sawtooth"  -> IF sawtooth(hdr) THEN hdr ELSE <<>>
      [] kind = "monotonic" -> IF monotonic(hdr) THEN hdr ELSE <<>>
      [] kind = "stairstep" -> IF stairstep(hdr) THEN hdr ELSE <<>>

(* ------------------------------ from_obspy ---------------------------- *)

\* np.any(a)
NpAny(seq) == \E i \in 1..Len(seq) : seq[i] # 0

\* the count taken as the difference of the extremes, one short
DerivedCountOffByOne(lines) == SetMax(Range(lines)) - SetMin(Range(lines))

\* np.amax(lines) - np.amin(lines) + 1   (lines 105, 111, 119)
DerivedCount(lines) == SetMax(Range(lines)) - SetMin(Range(lines)) + 1

\* while dt > 0.02: dt *= 0.001   (dt in milliseconds; the inputs used are
\* divided exactly)
RECURSIVE NormaliseDt(_)
NormaliseDt(dt) == IF dt > 20 THEN NormaliseDt(dt \div 1000) ELSE dt

\* params after lines 88-94
DtParams(stream, params) ==
    Put(params, "dt", NormaliseDt(Get(params, "dt", stream.interval * 1000)))

\* params after lines 99-113
XlineParams(stream, params) ==
    LET saw  == GetPattern(stream.xhdr, "sawtooth")
        mono == GetPattern(stream.xhdr, "monotonic")
        found == IF NpAny(saw) THEN saw ELSE mono
    IN  IF NpAny(found)
        THEN Put(Put(params, "nxlines",
                     GetOr(params, "nxlines", DerivedCount(found))),
                 "xlines", found)
        ELSE params

\* params after lines 115-121
InlineParams(stream, params) ==
    LET threed  == NpAny(GetPattern(stream.xhdr, "sawtooth"))
        inlines == GetPattern(stream.ihdr, "stairstep")
        p1      == Put(params, "ninlines", 1)
    IN  IF threed /\ NpAny(inlines)
        THEN Put(Put(p1, "ninlines",
                     GetOr(p1, "ninlines", DerivedCount(inlines))),
                 "inlines", inlines)
        ELSE p1

\* params as from_obspy hands them to the constructor (lines 86-121); the
\* caller's dictionary is updated in place
ResolvedParams(stream, params) ==
    InlineParams(stream, XlineParams(stream, DtParams(stream, params)))

\* Seismic.from_obspy(stream, params=params)
from_obspy(stream, params) ==
    Seismic(AsArray(Len(stream.xhdr), stream.ns), ResolvedParams(stream, params))

(* ------------------------------ stream inputs ------------------------- *)

\* crossline header of an m x k survey: the ramp base..base+k-1, m times
Sawtooth(m, k, base) == [i \in 1..(m * k) |-> base + ((i - 1) % k)]

\* inline header of an m x k survey: each value held for k traces
Stairstep(m, k, base) == [i \in 1..(m * k) |-> base + ((i - 1) \div k)]

SeqsUpTo(V, n) == UNION {[1..l -> V] : l \in 1..n}

\* the headers a trace source supplies: survey grids (a single inline is a
\* 2D line) and short unstructured sequences
Headers ==
    {[xhdr |-> Sawtooth(m, k, b), ihdr |-> Stairstep(m, k, b)] :
        m \in 1..MaxGrid, k \in 1..MaxGrid, b \in {0, 1}}
    \cup
    {[xhdr |-> h, ihdr |-> [i \in 1..Len(h) |-> 1]] : h \in SeqsUpTo(0..2, MaxHdrLen)}

\* sample intervals of the binary file header, in microseconds
Intervals == {0, 2000, 4000}

\* params a caller hands to from_obspy
ObspyParams ==
    {a @@ b @@ c :
        a \in Opt("ninlines", {2}),
        b \in Opt("nxlines", 0..MaxLines),
        c \in Opt("dt", {4})}

(* ------------------------------ get_line ------------------------------ *)

\* a line index: an integer, or a fraction p/q strictly between 0 and 1
\* (a Python float)
IsFraction(l) == l.den > 1

\* data[i, :, :] for a valid position 0 <= i < shape[0]
InlineAt(data, i) ==
    [shape  |-> <<data.shape[2], data.shape[3]>>,
     traces |-> [j \in 1..data.shape[2] |-> data.traces[i * data.shape[2] + j]]]

\* data[:, i, :] for a valid position 0 <= i < shape[1]
XlineAt(data, i) ==
    [shape  |-> <<data.shape[1], data.shape[3]>>,
     traces |-> [j \in 1..data.shape[1] |->
                    data.traces[(j - 1) * data.shape[2] + i + 1]]]

\* Indexing one axis of length n with the integer i: the position taken,
\* -1 if out of range (IndexError).
Position(i, n) ==
    IF 0 <= i /\ i < n THEN i
    ELSE IF -n <= i /\ i < 0 THEN n + i
    ELSE -1

\* l after "if l < 1: l *= n", as a rational
Scaled(l, n) == IF l.num < l.den THEN [num |-> l.num * n, den |-> l.den] ELSE l

\* get_line(l, direction).  A float index is an IndexError for numpy from
\* 1.12 on ("strict") and is truncated, with a deprecation warning, by the
\* numpy releases before it ("legacy").
get_line(obj, l, direction, numpy) ==
    IF Len(obj.data.shape) < 3
    THEN [status |-> "ok", value |-> obj.data]
    ELSE LET inline == direction \in {"None", "inline"}
             n      == IF inline THEN obj.ninlines ELSE obj.nxlines
             len    == IF inline THEN obj.data.shape[1] ELSE obj.data.shape[2]
             idx    == Scaled(l, n)
             pos    == Position(idx.num \div idx.den, len)
         IN  IF (IsFraction(l) /\ numpy = "strict") \/ pos = -1
             THEN [status |-> "IndexError"]
             ELSE [status |-> "ok",
                   value  |-> IF inline THEN InlineAt(obj.data, pos)
                                        ELSE XlineAt(obj.data, pos)]

\* the line indices tried
LineIndices ==
    {[num |-> i, den |-> 1] : i \in -1..MaxLines}
    \cup {[num |-> f[1], den |-> f[2]] :
             f \in {g \in (1..MaxDen) \X (2..MaxDen) : g[1] < g[2]}}

NumpyBuilds == {"legacy", "strict"}

\* params for the models lines are taken from
GeometryParams ==
    {a @@ b @@ ("dt" :> 4) :
        a \in Opt("ninlines", 1..MaxLines),
        b \in Opt("nxlines", 1..MaxLines)}

(* ------------------------------ actions ------------------------------- *)

Init ==
    /\ self = NoObject
    /\ args = [op |-> "none"]
    /\ ret = [status |-> "none"]
    /\ out = <<>>

\* s = Seismic(data, params=params), the inputs drawn from the given sets
ConstructFrom(NT, NS, P) ==
    /\ args.op = "none"
    /\ \E nt \in NT, ns \in NS, params \in P :
          LET r == Seismic(AsArray(nt, ns), params)
          IN  /\ args' = [op |-> "init", ntraces |-> nt, ns |-> ns,
                          params |-> params]
              /\ self' = r.self
              /\ ret' = r.ret
              /\ out' = out \o r.out

Construct == ConstructFrom(0..MaxTraces, 0..MaxSamples, CtorParams)

\* s = Seismic.from_obspy(stream, params=params)
FromObspy ==
    /\ args.op = "none"
    /\ \E h \in Headers, ns \in 0..MaxSamples, iv \in Intervals,
          params \in ObspyParams :
          LET stream == [xhdr |-> h.xhdr, ihdr |-> h.ihdr, ns |-> ns,
                         interval |-> iv]
              r == from_obspy(stream, params)
          IN  /\ args' = [op |-> "from_obspy", stream |-> stream,
                          ntraces |-> Len(h.xhdr), ns |-> ns,
                          params |-> params]
              /\ self' = r.self
              /\ ret' = r.ret
              /\ out' = out \o r.out

Next == Construct \/ FromObspy

Spec == Init /\ [][Next]_vars

\* the models lines are taken from: any geometry, one sample count
ConstructGeometry == ConstructFrom(1..MaxLineTraces, {MaxSamples}, GeometryParams)

\* s.get_line(l, direction) on a constructed model
GetLine ==
    /\ self.alive
    /\ \E l \in LineIndices, direction \in {"None", "inline", "xline"},
          numpy \in NumpyBuilds :
          /\ args' = [op |-> "get_line", l |-> l, direction |-> direction,
                      numpy |-> numpy]
          /\ ret' = get_line(self, l, direction, numpy)
          /\ UNCHANGED <<self, out>>

NextLine == ConstructGeometry \/ GetLine

SpecLine == Init /\ [][NextLine]_vars

(* ------------------------------ floats -------------------------------- *)

\* A float is a pair <<n, d>> with d >= 0: the rational n/d, and for d = 0
\* nan (n = 0) or an infinity (the sign of n).
Num(v) == <<v, 1>>

NaN == <<0, 0>>

NegInf == <<-1, 0>>

IsNaN(x) == x[2] = 0 /\ x[1] = 0

IsFinite(x) == x[2] > 0

\* x <= y and x = y on floats that are not nan (comparisons with nan are
\* false)
RLe(x, y) ==
    /\ ~IsNaN(x) /\ ~IsNaN(y)
    /\ IF IsFinite(x) /\ IsFinite(y) THEN x[1] * y[2] <= y[1] * x[2]
       ELSE IF IsFinite(x) THEN y[1] > 0
       ELSE IF IsFinite(y) THEN x[1] < 0
       ELSE x[1] <= y[1]

REq(x, y) == RLe(x, y) /\ RLe(y, x)

RECURSIVE Gcd(_, _)
Gcd(m, n) == IF n = 0 THEN m ELSE Gcd(n, m % n)

Abs(m) == IF m < 0 THEN -m ELSE m

\* n/d in lowest terms, d > 0
Ratio(n, d) == LET g == Gcd(Abs(n), d) IN <<n \div g, d \div g>>

\* finite arithmetic
RAdd(x, y) == Ratio(x[1] * y[2] + y[1] * x[2], x[2] * y[2])

RSub(x, y) == Ratio(x[1] * y[2] - y[1] * x[2], x[2] * y[2])

RMul(x, y) == Ratio(x[1] * y[1], x[2] * y[2])

\* np.amin / np.amax of a non-empty sequence of floats: nan if any is nan
RECURSIVE AMin(_)
AMin(xs) ==
    IF Len(xs) = 1 THEN xs[1]
    ELSE LET m == AMin(Tail(xs))
         IN  IF IsNaN(xs[1]) \/ IsNaN(m) THEN NaN
             ELSE IF RLe(xs[1], m) THEN xs[1] ELSE m

RECURSIVE AMax(_)
AMax(xs) ==
    IF Len(xs) = 1 THEN xs[1]
    ELSE LET m == AMax(Tail(xs))
         IN  IF IsNaN(xs[1]) \/ IsNaN(m) THEN NaN
             ELSE IF RLe(m, xs[1]) THEN xs[1] ELSE m

RECURSIVE RSum(_)
RSum(xs) == IF xs = <<>> THEN Num(0) ELSE RAdd(xs[1], RSum(Tail(xs)))

\* np.mean of a non-empty sequence of finite floats
Mean(xs) == LET t == RSum(xs) IN Ratio(t[1], t[2] * Len(xs))

(* ------------------------------ spectrum ------------------------------ *)

\* log10 of a power of ten
RECURSIVE Log10(_)
Log10(a) == IF a <= 1 THEN 0 ELSE 1 + Log10(a \div 10)

RECURSIVE Pow10(_)
Pow10(e) == IF e = 0 THEN 1 ELSE 10 * Pow10(e - 1)

\* 20 * np.log10(a): -inf for a zero amplitude
Db(a) == IF a = 0 THEN NegInf ELSE Num(20 * Log10(a))

\* db - np.amax(db) + shift, elementwise; np.amax(db) is -inf for an
\* all-zero spectrum, and -inf - -inf is nan
Normalise(a, shift) ==
    LET top == AMax([i \in 1..Len(a) |-> Db(a[i])])
    IN  [i \in 1..Len(a) |->
            IF ~IsFinite(top) THEN NaN
            ELSE IF a[i] = 0 THEN NegInf
            ELSE RAdd(RSub(Db(a[i]), top), Num(shift))]

\* np.fft.rfftfreq(n, 1/fs)[i] for the bins i = 0 .. n//2 (as a sequence,
\* bin i at position i + 1)
RfftFreq(n, fs) == [i \in 1..((n \div 2) + 1) |-> Ratio((i - 1) * fs, n)]

\* ((sig[1:] >= 0) & (sig[:-1] < 0)).nonzero(): the bins z (from 0) with
\* sig[z] < 0 and sig[z+1] >= 0, in increasing order
RECURSIVE RisingFrom(_, _)
RisingFrom(sig, z) ==
    IF z + 2 > Len(sig) THEN <<>>
    ELSE (IF RLe(Num(0), sig[z + 2]) /\ RLe(sig[z + 1], Num(0)) /\
             ~REq(sig[z + 1], Num(0))
          THEN <<z>> ELSE <<>>) \o RisingFrom(sig, z + 1)

\* z - sig[z] / (sig[z+1] - sig[z]); sig[z] = -inf gives -inf / inf = nan
Crossing(sig, z) ==
    IF ~IsFinite(sig[z + 1]) THEN NaN
    ELSE LET d == RSub(sig[z + 2], sig[z + 1])
         IN  RSub(Num(z), Ratio(sig[z + 1][1] * d[2], sig[z + 1][2] * d[1]))

\* np.interp(x, np.arange(len(f)), f) for 0 <= x <= len(f) - 1
Interp(x, f) ==
    IF IsNaN(x) THEN NaN
    ELSE LET i    == x[1] \div x[2]
             frac == <<x[1] - i * x[2], x[2]>>
         IN  IF i + 1 >= Len(f) THEN f[Len(f)]
             ELSE RAdd(f[i + 1], RMul(frac, RSub(f[i + 2], f[i + 1])))

\* spectrum() falling back to the whole band, 0 to Nyquist, when nothing
\* crosses the threshold
spectrumDefaulting(a, n, fs) ==
    LET f         == RfftFreq(n, fs)
        sig       == Normalise(a, ThresholdDb)
        indices   == RisingFrom(sig, 0)
        crossings == [j \in 1..Len(indices) |-> Crossing(sig, indices[j])]
    IN  [status |-> "ok", f |-> f, a |-> a,
         f_min |-> IF crossings = <<>> THEN f[1]
                   ELSE Interp(AMin(crossings), f),
         f_max |-> IF crossings = <<>> THEN f[Len(f)]
                   ELSE Interp(AMax(crossings), f)]

\* spectrum(signal, fs) for a signal of n samples whose windowed transform
\* has the magnitudes a = abs(np.fft.rfft(windowed)); np.amin of no
\* crossings raises ValueError
spectrum(a, n, fs) ==
    LET f         == RfftFreq(n, fs)
        sig       == Normalise(a, ThresholdDb)
        indices   == RisingFrom(sig, 0)
        crossings == [j \in 1..Len(indices) |-> Crossing(sig, indices[j])]
    IN  IF crossings = <<>>
        THEN [status |-> "ValueError"]
        ELSE [status |-> "ok", f |-> f, a |-> a,
              f_min |-> Interp(AMin(crossings), f),
              f_max |-> Interp(AMax(crossings), f)]

\* np.argmax(amp): the first bin (from 0) holding the maximum
ArgMax(amp) ==
    SetMin({i \in 0..(Len(amp) - 1) : \A j \in 1..Len(amp) : amp[j] <= amp[i + 1]})

\* peak = f[np.argmax(amp)]   (line 177)
PeakFreq(f, amp) == f[ArgMax(amp) + 1]

\* the curve drawn (lines 186-187): 20 * log10 of the amplitudes, less its
\* maximum
Curve(amp) == Normalise(amp, 0)

\* plot_spectrum for the visited traces' magnitude spectra amps (in the
\* order visited), each of a signal of n samples: what is drawn and
\* reported.  An exception of spectrum() ends the call.
plot_spectrum(amps, n, fs) ==
    LET res   == [t \in 1..Len(amps) |-> spectrum(amps[t], n, fs)]
        amp   == amps[Len(amps)]
        peaks == [t \in 1..Len(amps) |-> PeakFreq(res[t].f, res[t].a)]
        mis   == [t \in 1..Len(amps) |-> res[t].f_min]
        mas   == [t \in 1..Len(amps) |-> res[t].f_max]
    IN  IF \E t \in 1..Len(amps) : res[t].status # "ok"
        THEN [status |-> "ValueError"]
        ELSE [status |-> "ok",
              spec   |-> [i \in 1..Len(amp) |->
                            Mean([t \in 1..Len(amps) |-> Num(amps[t][i])])],
              db     |-> Curve(amp),
              f_peak |-> Mean(peaks),
              f_min  |-> AMin(mis),
              f_max  |-> AMax(mas)]

(* ------------------------------ spectrum inputs ----------------------- *)

Amplitudes == {0} \cup {Pow10(e) : e \in 0..MaxDecades}

\* the magnitude spectra of signals of n samples
Spectra(n) == [1..((n \div 2) + 1) -> Amplitudes]

\* signal lengths giving 2 .. MaxBins bins
SignalLengths == 2..(2 * MaxBins - 1)

\* sampling frequencies 1/dt for dt = 4 ms and 2 ms
SamplingRates == {250, 500}

(* ------------------------------ spectral actions ---------------------- *)

\* f, a, f_min, f_max = s.spectrum(signal, fs)
Spectrum ==
    /\ args.op = "none"
    /\ \E n \in SignalLengths, fs \in SamplingRates :
          \E a \in Spectra(n) :
            /\ args' = [op |-> "spectrum", a |-> a, n |-> n, fs |-> fs]
            /\ ret' = spectrum(a, n, fs)
            /\ UNCHANGED <<self, out>>

NextSpectrum == Spectrum

SpecSpectrum == Init /\ [][NextSpectrum]_vars

\* s.plot_spectrum(...) visiting 1 .. MaxVisited traces
PlotSpectrum ==
    /\ args.op = "none"
    /\ \E n \in SignalLengths, fs \in SamplingRates, k \in 1..MaxVisited :
          \E amps \in [1..k -> Spectra(n)] :
            /\ args' = [op |-> "plot_spectrum", amps |-> amps, n |-> n,
                        fs |-> fs]
            /\ ret' = plot_spectrum(amps, n, fs)
            /\ UNCHANGED <<self, out>>

NextPlot == PlotSpectrum

SpecPlot == Init /\ [][NextPlot]_vars

(* ------------------------------ properties ---------------------------- *)

\* a construction (by the constructor or by from_obspy) completed
Constructed == args.op \in {"init", "from_obspy"} /\ ret.status = "ok"

\* the input is not degenerate: at least one trace with at least one
\* sample, and a caller-supplied ninlines, if any, of at least 1
Sensible ==
    /\ args.ntraces > 0
    /\ args.ns > 0
    /\ Get(args.params, "ninlines", 1) >= 1

\* the number of traces an array of shape (ntraces, ns) or (n, m, ns) holds
TracesHeld(data) ==
    IF Len(data.shape) = 3 THEN data.shape[1] * data.shape[2] ELSE data.shape[1]

\* C1: a construction whose resolved ninlines x nxlines (nxlines > 0) differs
\* from the number of supplied traces fails, and no model is produced whose
\* data holds fewer traces than were supplied.
C1_MismatchReported ==
    (Constructed /\ Sensible) =>
        /\ self.nxlines > 0 => self.ninlines * self.nxlines = args.ntraces
        /\ TracesHeld(self.data) >= args.ntraces

\* C2: after every construction that completes, ninlines >= 1 and, whenever
\* nxlines > 0, ninlines x nxlines is the number of supplied traces.
C2_GeometryInvariant ==
    (Constructed /\ Sensible) =>
        /\ self.ninlines >= 1
        /\ self.nxlines > 0 => self.ninlines * self.nxlines = args.ntraces

\* a well-formed m x k survey read with no caller-supplied counts
WellFormed(m, k) ==
    /\ args.op = "from_obspy"
    /\ args.stream.xhdr = Sawtooth(m, k, 1)
    /\ \E b \in 0..1 : args.stream.ihdr = Stairstep(m, k, b)
    /\ DOMAIN args.params \cap {"ninlines", "nxlines"} = {}
    /\ Get(args.params, "dt", args.stream.interval) > 0

Adjusted(n) == \E i \in 1..Len(out) : out[i] = <<"nxlines changed", n>>

\* the crossline count from_obspy derives from the headers, 0 if none
HeaderCount(stream) ==
    LET saw  == GetPattern(stream.xhdr, "sawtooth")
        mono == GetPattern(stream.xhdr, "monotonic")
    IN  IF NpAny(saw) THEN DerivedCount(saw)
        ELSE IF NpAny(mono) THEN DerivedCount(mono) ELSE 0

\* C4: a caller-supplied nxlines that conflicts with the derived count gives
\* way to the derived count, the adjustment is reported, and construction
\* does not fail; for a count passed to the constructor (with an inline
\* count that divides the traces) and for one passed to from_obspy.
C4_DerivedCountWins ==
    /\ ( /\ args.op = "init"
         /\ Sensible
         /\ {"ninlines", "nxlines", "dt"} \subseteq DOMAIN args.params
         /\ args.params["ninlines"] > 1
         /\ args.ntraces % args.params["ninlines"] = 0
         /\ args.params["nxlines"] # args.ntraces \div args.params["ninlines"] )
       => /\ ret.status = "ok"
          /\ self.nxlines = args.ntraces \div args.params["ninlines"]
          /\ Adjusted(self.nxlines)
    /\ ( /\ args.op = "from_obspy"
         /\ Sensible
         /\ Get(args.params, "dt", args.stream.interval) > 0
         /\ HeaderCount(args.stream) > 0
         /\ GetOr(args.params, "nxlines", 0) # 0
         /\ args.params["nxlines"] # HeaderCount(args.stream) )
       => /\ ret.status = "ok"
          /\ self.nxlines = HeaderCount(args.stream)
          /\ Adjusted(self.nxlines)

\* C5: after every construction that completes, nsamples is the length of
\* the last axis of the stored data.
C5_NsamplesIsLastAxis ==
    (Constructed /\ Sensible) => self.nsamples = Last(self.data.shape)

\* C6: the time basis has nsamples entries, the i-th being tstart + i*dt.
C6_TimeBasis ==
    (Constructed /\ Sensible) =>
        /\ Len(self.tbasis) = self.nsamples
        /\ \A i \in 1..Len(self.tbasis) :
              self.tbasis[i] = self.tstart + (i - 1) * self.dt

\* the line at fraction l of an axis of n lines
FractionLine(l, n) == (l.num * n) \div l.den

\* C7: on a 3D model get_line with an index l in (0, 1) succeeds and returns
\* the line at fraction l of the requested axis; on a model of fewer than 3
\* dimensions it returns the whole stored array.
C7_FractionalLine ==
    args.op = "get_line" =>
        IF Len(self.data.shape) < 3
        THEN ret = [status |-> "ok", value |-> self.data]
        ELSE IsFraction(args.l) =>
                /\ ret.status = "ok"
                /\ ret.value =
                     IF args.direction \in {"None", "inline"}
                     THEN InlineAt(self.data, FractionLine(args.l, self.ninlines))
                     ELSE XlineAt(self.data, FractionLine(args.l, self.nxlines))

\* the largest amplitude of a spectrum
Top(a) == SetMax(Range(a))

\* no adjacent pair of bins goes from below the threshold (less than a
\* tenth of the largest amplitude) to at or above it
NoRisingEdge(a) ==
    ~ \E z \in 1..(Len(a) - 1) :
        /\ Top(a) > 0
        /\ 10 * a[z] < Top(a)
        /\ 10 * a[z + 1] >= Top(a)

\* C8: for a spectrum with no rising threshold crossing spectrum() raises
\* and returns no (f_min, f_max) pair.
C8_NoDefaultBandwidth ==
    (args.op = "spectrum" /\ NoRisingEdge(args.a)) =>
        /\ ret.status = "ValueError"
        /\ DOMAIN ret \cap {"f_min", "f_max"} = {}

\* spectrum() has raised on a flat spectrum (all amplitudes equal, not 0)
C8_Witness ==
    /\ args.op = "spectrum"
    /\ Len(args.a) = 3
    /\ \A i \in 1..Len(args.a) : args.a[i] = 10
    /\ ret.status = "ValueError"

\* C9: whenever spectrum() produces an estimate, f_min <= f_peak <= f_max,
\* f_peak being the frequency of the bin of largest amplitude.
C9_PeakWithinBand ==
    (args.op = "spectrum" /\ ret.status = "ok" /\ ~IsNaN(ret.f_min)) =>
        /\ RLe(ret.f_min, PeakFreq(ret.f, ret.a))
        /\ RLe(PeakFreq(ret.f, ret.a), ret.f_max)

\* the sum over the visited traces of the amplitudes of bin i
RECURSIVE BinSum(_, _)
BinSum(amps, i) ==
    IF amps = <<>> THEN 0 ELSE Head(amps)[i] + BinSum(Tail(amps), i)

\* curve is the dB curve, normalised to a maximum of 0 dB, of a spectrum
\* proportional to the sums s: v dB below the maximum is a factor
\* 10^(v/20) below the largest sum
IsCurveOf(curve, s) ==
    \A i \in 1..Len(curve) :
        IF s[i] = 0 THEN curve[i] = NegInf
        ELSE /\ IsFinite(curve[i])
             /\ curve[i][1] <= 0
             /\ (-curve[i][1]) % (20 * curve[i][2]) = 0
             /\ s[i] * Pow10((-curve[i][1]) \div (20 * curve[i][2])) = Top(s)

\* C10: plot_spectrum draws the dB curve of the average of the visited
\* traces' amplitude spectra and reports the smallest per-trace f_min and
\* the largest per-trace f_max.
C10_EnsembleCurve ==
    (args.op = "plot_spectrum" /\ ret.status = "ok" /\ ~IsNaN(ret.f_min)) =>
        LET each == [t \in 1..Len(args.amps) |->
                        spectrum(args.amps[t], args.n, args.fs)]
            sums == [i \in 1..Len(args.amps[1]) |-> BinSum(args.amps, i)]
        IN  /\ IsCurveOf(ret.db, sums)
            /\ \A t \in 1..Len(each) :
                  RLe(ret.f_min, each[t].f_min) /\ RLe(each[t].f_max, ret.f_max)
            /\ \E t \in 1..Len(each) : ret.f_min = each[t].f_min
            /\ \E t \in 1..Len(each) : ret.f_max = each[t].f_max

====
